---- MODULE Spec2Model ----
(***************************************************************************)
(* Model of go-struct-converter: the reflection-driven conversion of a     *)
(* source record into a target record (ConvertStructs) and the recursive   *)
(* engine behind it (convertValue, convertStruct, convertSlice,            *)
(* convertMap).                                                            *)
(*                                                                         *)
(* The repository holds three implementations of the same package:         *)
(*   - src/struct-converter/converter.go           (plain names below)     *)
(*   - src/unnamed/part_001, lines 1-140           (names ending in BE:    *)
(*     the variant that skips a failing field and goes on, best effort)    *)
(*   - src/unnamed/part_001, lines 142-490         (names ending in Ind:   *)
(*     the variant with pointer indirection and scalar coercion)           *)
(* Each is modelled as its own family of operators.                        *)
(***************************************************************************)
EXTENDS Integers, Sequences, FiniteSets, TLC

\* Integers of the inputs range over 0..MaxInt.
MaxInt == 1
\* Slices have at most MaxLen elements, maps at most MaxLen entries.
MaxLen == 2
\* The greatest nesting depth of a call that is run.
MaxDepth == 12

(***************************************************************************)
(* Type descriptors (reflect.Type).  A descriptor is a tuple whose first   *)
(* element is the kind; two descriptors are the same Go type iff they are  *)
(* equal.                                                                  *)
(***************************************************************************)
TInt == <<"int">>
TInt32 == <<"int32">>
TInt64 == <<"int64">>
TString == <<"string">>
SliceOf(e) == <<"slice", e>>
MapOf(k, v) == <<"map", k, v>>
PtrTo(e) == <<"ptr", e>>
\* A named struct type of the caller, its fields given by StructFields.
Named(n) == <<"struct", <<n>>>>
\* struct { F t `custom_tag:"F"`; After string `custom_tag:"After"` }
Wrap(t) == <<"wrap", t>>

IntKinds == {"int", "int32", "int64"}

\* reflect.Type.Kind / reflect.Value.Kind
Kind(t) == IF t[1] = "wrap" THEN "struct" ELSE t[1]

\* reflect.Type.Elem (slice, map, pointer) and reflect.Type.Key (map)
Elem(t) == IF Kind(t) = "map" THEN t[3] ELSE t[2]
Key(t) == t[2]

\* reflect.StructField: Name, Type and the value of the tag key custom_tag
\* ("" when the field carries no such tag).
Field(n, t, tag) == [name |-> n, type |-> t, tag |-> tag]

\* The struct types of the callers: the fields of each, in declaration order.
StructFields(t) ==
  IF t[1] = "wrap"
  THEN << Field("F", t[2], "F"), Field("After", TString, "After") >>
  ELSE CASE t[2][1] = "Plain" ->
              << Field("A", TInt, ""), Field("B", TString, ""), Field("u", TInt, "") >>
         [] t[2][1] = "Plain2" ->
              << Field("A", TInt, ""), Field("B", TString, ""), Field("u", TInt, "") >>
         [] t[2][1] = "Tagged" ->
              << Field("FieldA", TInt, "X"), Field("B", TInt, ""),
                 Field("C", TInt, "Z"), Field("D", TInt, "u") >>
         [] t[2][1] = "TaggedT" ->
              << Field("X", TInt, ""), Field("B", TInt, ""), Field("C", TInt, ""),
                 Field("D", TInt, ""), Field("u", TInt, "") >>
         [] t[2][1] = "Inner" ->
              << Field("A", TInt, ""), Field("B", TInt, ""), Field("C", TInt, "") >>
         [] t[2][1] = "InnerAC" ->
              << Field("A", TInt, ""), Field("C", TInt, "") >>
         [] t[2][1] = "InnerS" ->
              << Field("A", TString, "") >>
         [] t[2][1] = "Priv" ->
              << Field("A", TInt, ""), Field("u", TInt, "") >>
         [] t[2][1] = "K2" ->
              << Field("A", TInt, ""), Field("B", TString, "") >>
         [] t[2][1] = "K1" ->
              << Field("A", TInt, "") >>

\* A field is exported iff its name starts with an upper-case letter: of the
\* names used here, only "u" does not.
Exported(name) == name # "u"

\* reflect.StructTag.Get: the value under key, "" when the tag has no such
\* key.  No tag has an empty key, so Get("") is always "".
TagGet(f, key) == IF key = "custom_tag" THEN f.tag ELSE ""

\* reflect.Type.AssignableTo, for the types above (no interfaces, no
\* channels): the two types are identical.
AssignableTo(a, b) == a = b

\* Two struct types have identical underlying types iff their field
\* sequences agree in names and types (tags are ignored).
SameFields(a, b) ==
  /\ Len(StructFields(a)) = Len(StructFields(b))
  /\ \A i \in 1..Len(StructFields(a)) :
        /\ StructFields(a)[i].name = StructFields(b)[i].name
        /\ StructFields(a)[i].type = StructFields(b)[i].type

\* reflect.Type.ConvertibleTo, for the types above: identical types, any two
\* integer types, an integer type to string, struct types with identical
\* fields, pointers to types with identical underlying types.
ConvertibleTo(a, b) ==
  \/ a = b
  \/ Kind(a) \in IntKinds /\ Kind(b) \in IntKinds
  \/ Kind(a) \in IntKinds /\ Kind(b) = "string"
  \/ Kind(a) = "struct" /\ Kind(b) = "struct" /\ SameFields(a, b)
  \/ /\ Kind(a) = "ptr" /\ Kind(b) = "ptr"
     /\ \/ Elem(a) = Elem(b)
        \/ Kind(Elem(a)) = "struct" /\ Kind(Elem(b)) = "struct" /\ SameFields(Elem(a), Elem(b))

(***************************************************************************)
(* Values (reflect.Value): a type descriptor and a payload.                *)
(*   integer kinds  an integer                                             *)
(*   string         a string                                               *)
(*   struct         the sequence of the fields' payloads                   *)
(*   slice          [isNil, elems]: elems the sequence of payloads         *)
(*   map            [isNil, entries]: entries a set of <<key, value>>      *)
(*   pointer        << >> for nil, <<p>> for a pointer to payload p        *)
(***************************************************************************)
Val(t, p) == [t |-> t, p |-> p]
\* The zero reflect.Value (IsValid() = false).
Invalid == [t |-> <<"invalid">>, p |-> 0]
IsValid(v) == v.t[1] # "invalid"

StrVals == {"", "a"}
NilSlice == [isNil |-> TRUE, elems |-> << >>]
NilMap == [isNil |-> TRUE, entries |-> {}]
NilPtr == << >>

RECURSIVE Zero(_)
\* reflect.Zero / reflect.New(t).Elem(): the zero payload of type t.
Zero(t) ==
  CASE Kind(t) \in IntKinds -> 0
    [] Kind(t) = "string" -> ""
    [] Kind(t) = "struct" -> [i \in 1..Len(StructFields(t)) |-> Zero(StructFields(t)[i].type)]
    [] Kind(t) = "slice" -> NilSlice
    [] Kind(t) = "map" -> NilMap
    [] Kind(t) = "ptr" -> NilPtr

\* reflect.Value.IsNil, defined for slices, maps and pointers only.
IsNil(v) ==
  CASE Kind(v.t) = "ptr" -> v.p = NilPtr
    [] Kind(v.t) \in {"slice", "map"} -> v.p.isNil

\* reflect.Value.NumField / Field(i) / Type().Field(i), 1-based here.
NumField(v) == Len(StructFields(v.t))
FieldOf(v, i) == Val(StructFields(v.t)[i].type, v.p[i])
TypeField(v, i) == StructFields(v.t)[i]

\* reflect.Value.FieldByName on a struct value: the index of the field of
\* that name, 0 (the zero Value) when there is none.
FieldByName(t, name) ==
  LET hits == {i \in 1..Len(StructFields(t)) : StructFields(t)[i].name = name}
  IN IF hits = {} THEN 0 ELSE CHOOSE i \in hits : TRUE

\* targetField.IsValid() && targetField.CanSet(), the target being
\* addressable: the field exists and is exported.
ValidSettable(t, j) == j # 0 /\ Exported(StructFields(t)[j].name)

\* targetField.Set(v) on field j of the struct value target.
SetField(target, j, v) == [target EXCEPT !.p[j] = v.p]


(***************************************************************************)
(* Map iteration.  reflect.Value.MapKeys returns the keys "in unspecified  *)
(* order": the order is an input of every conversion, ord, a permutation   *)
(* of 1..MaxLen applied to the keys listed in a canonical order.           *)
(***************************************************************************)
Orders == {o \in [1..MaxLen -> 1..MaxLen] : \A a, b \in 1..MaxLen : o[a] = o[b] => a = b}

RECURSIVE KeyCode(_, _)
\* A number per key payload, injective on the payloads of one key type;
\* used only to list a map's keys canonically before ord permutes them.
KeyCode(t, p) ==
  CASE Kind(t) \in IntKinds -> p
    [] Kind(t) = "string" -> IF p = "" THEN 0 ELSE 1
    [] Kind(t) = "struct" ->
         LET n == Len(StructFields(t))
             code[i \in 0..n] ==
               IF i = 0 THEN 0
               ELSE code[i - 1] * (MaxInt + 2) + KeyCode(StructFields(t)[i].type, p[i])
         IN code[n]

RECURSIVE SortKeys(_, _)
SortKeys(t, ks) ==
  IF ks = {} THEN << >>
  ELSE LET k == CHOOSE x \in ks : \A y \in ks : KeyCode(t, x) <= KeyCode(t, y)
       IN <<k>> \o SortKeys(t, ks \ {k})

\* source.MapKeys(): the keys of the map value m, in the order ord gives.
MapKeys(m, ord) ==
  LET ks == SortKeys(Key(m.t), {e[1] : e \in m.p.entries})
      pick == SelectSeq(ord, LAMBDA x : x <= Len(ks))
  IN [j \in 1..Len(ks) |-> ks[pick[j]]]

\* source.MapIndex(key)
MapIndex(m, k) == LET e == CHOOSE x \in m.p.entries : x[1] = k IN Val(Elem(m.t), e[2])

\* SetMapIndex done wrong, an entry already under the key being kept: C10
\* does not hold of it.
SetMapIndexKeepFirst(m, k, v) ==
  IF \E e \in m.p.entries : e[1] = k.p THEN m
  ELSE [m EXCEPT !.p.entries = @ \cup {<<k.p, v.p>>}]

\* targetMap.SetMapIndex(key, value): the entry of that key is replaced.
SetMapIndex(m, k, v) ==
  [m EXCEPT !.p.entries = {e \in @ : e[1] # k.p} \cup {<<k.p, v.p>>}]

(***************************************************************************)
(* The outcome of a call: a value and no error, an error, or a panic of    *)
(* the reflect package (which no function of the package recovers).        *)
(***************************************************************************)
Ok(v) == [st |-> "ok", v |-> v]
Err == [st |-> "err", v |-> Invalid]
Panic == [st |-> "panic", v |-> Invalid]

(***************************************************************************)
(* src/struct-converter/converter.go                                       *)
(***************************************************************************)
RECURSIVE convertValue(_, _, _)
RECURSIVE convertStructLoop(_, _, _, _)
RECURSIVE convertSliceLoop(_, _, _, _)
RECURSIVE convertMapLoop(_, _, _, _, _)

\* The loop of convertStruct from field i on; target is the record built so far.
convertStructLoop(source, target, i, ord) ==
  IF i > NumField(source) THEN Ok(target)
  ELSE IF ~Exported(TypeField(source, i).name)
  THEN convertStructLoop(source, target, i + 1, ord)
  ELSE IF Kind(target.t) # "struct"
  THEN Panic     \* FieldByName on a value that is no struct
  ELSE LET j == FieldByName(target.t, TypeField(source, i).name)
       IN IF ~ValidSettable(target.t, j)
          THEN convertStructLoop(source, target, i + 1, ord)
          ELSE LET r == convertValue(FieldOf(source, i), StructFields(target.t)[j].type, ord)
               IN IF r.st # "ok" THEN r
                  ELSE IF ~AssignableTo(r.v.t, StructFields(target.t)[j].type) THEN Panic
                  ELSE convertStructLoop(source, SetField(target, j, r.v), i + 1, ord)

convertStruct(source, targetType, ord) ==
  convertStructLoop(source, Val(targetType, Zero(targetType)), 1, ord)

\* The loop of convertSlice done wrong, a failing element being skipped: C6
\* does not hold of it.
convertSliceLoopSkip(source, targetSlice, i, ord) ==
  IF i > Len(source.p.elems) THEN Ok(targetSlice)
  ELSE LET r == convertValue(Val(Elem(source.t), source.p.elems[i]), Elem(targetSlice.t), ord)
       IN IF r.st = "panic" THEN r
          ELSE IF r.st = "err" THEN convertSliceLoop(source, targetSlice, i + 1, ord)
          ELSE convertSliceLoop(source, [targetSlice EXCEPT !.p.elems[i] = r.v.p], i + 1, ord)

\* The loop of convertSlice done wrong, element i being set at the index
\* counted from the end: C11 does not hold of it.
convertSliceLoopMirror(source, targetSlice, i, ord) ==
  IF i > Len(source.p.elems) THEN Ok(targetSlice)
  ELSE LET r == convertValue(Val(Elem(source.t), source.p.elems[i]), Elem(targetSlice.t), ord)
       IN IF r.st # "ok" THEN r
          ELSE convertSliceLoop(source,
                 [targetSlice EXCEPT !.p.elems[Len(source.p.elems) + 1 - i] = r.v.p], i + 1, ord)

\* The loop of convertSlice from index i on (1-based).
convertSliceLoop(source, targetSlice, i, ord) ==
  IF i > Len(source.p.elems) THEN Ok(targetSlice)
  ELSE LET r == convertValue(Val(Elem(source.t), source.p.elems[i]), Elem(targetSlice.t), ord)
       IN IF r.st # "ok" THEN r
          ELSE IF ~AssignableTo(r.v.t, Elem(targetSlice.t)) THEN Panic
          ELSE convertSliceLoop(source, [targetSlice EXCEPT !.p.elems[i] = r.v.p], i + 1, ord)

\* reflect.MakeSlice(typ, len, cap): a non-nil slice of len zero elements.
MakeSlice(t, n) == Val(t, [isNil |-> FALSE, elems |-> [i \in 1..n |-> Zero(Elem(t))]])

convertSlice(source, targetType, ord) ==
  IF Kind(targetType) # "slice" THEN Err
  ELSE convertSliceLoop(source, MakeSlice(targetType, Len(source.p.elems)), 1, ord)

\* reflect.MakeMapWithSize(typ, n): a non-nil empty map.
MakeMap(t) == Val(t, [isNil |-> FALSE, entries |-> {}])

\* The loop of convertMap over keys, the keys in iteration order, from the i-th on.
convertMapLoop(source, targetMap, keys, i, ord) ==
  IF i > Len(keys) THEN Ok(targetMap)
  ELSE LET key == Val(Key(source.t), keys[i])
           ck == convertValue(key, Key(targetMap.t), ord)
       IN IF ck.st # "ok" THEN ck
          ELSE LET cv == convertValue(MapIndex(source, keys[i]), Elem(targetMap.t), ord)
               IN IF cv.st # "ok" THEN cv
                  ELSE IF ~AssignableTo(ck.v.t, Key(targetMap.t)) \/ ~AssignableTo(cv.v.t, Elem(targetMap.t))
                  THEN Panic
                  ELSE convertMapLoop(source, SetMapIndex(targetMap, ck.v, cv.v), keys, i + 1, ord)

convertMap(source, targetType, ord) ==
  IF Kind(targetType) # "map" THEN Err
  ELSE convertMapLoop(source, MakeMap(targetType), MapKeys(source, ord), 1, ord)

convertValue(source, targetType, ord) ==
  CASE Kind(source.t) = "struct" -> convertStruct(source, targetType, ord)
    [] Kind(source.t) = "slice" -> convertSlice(source, targetType, ord)
    [] Kind(source.t) = "map" -> convertMap(source, targetType, ord)
    [] OTHER -> IF ~IsValid(source) THEN Panic    \* Type() of the zero Value
                ELSE IF AssignableTo(source.t, targetType) THEN Ok(source)
                ELSE Err


\* The resolution done wrong, the tag being ignored: C2 does not hold of it.
ResolveTargetByName(targetType, stf, tagName) == FieldByName(targetType, stf.name)

\* The target field ConvertStructs resolves for a source field: the field
\* named by the tag value when tagName is given and that field is valid and
\* settable, else the field of the source field's own name (0: none).
ResolveTarget(targetType, stf, tagName) ==
  IF tagName # ""
  THEN LET tagValue == TagGet(stf, tagName)
           byTag == IF tagValue # "" THEN FieldByName(targetType, tagValue) ELSE 0
       IN IF ~ValidSettable(targetType, byTag) THEN FieldByName(targetType, stf.name) ELSE byTag
  ELSE FieldByName(targetType, stf.name)

\* One iteration of the loop of ConvertStructs, on source field i: the
\* target after it, or the error returned.
ConvertStructsField(sourceVal, targetVal, i, tagName, ord) ==
  LET stf == TypeField(sourceVal, i)
      tagValue == TagGet(stf, tagName)
  IN IF ~Exported(stf.name) \/ tagValue = "" THEN Ok(targetVal)
     ELSE LET j == ResolveTarget(targetVal.t, stf, tagName)
          IN IF ~ValidSettable(targetVal.t, j) THEN Ok(targetVal)
             ELSE LET r == convertValue(FieldOf(sourceVal, i), StructFields(targetVal.t)[j].type, ord)
                  IN IF r.st # "ok" THEN r
                     ELSE IF ~AssignableTo(r.v.t, StructFields(targetVal.t)[j].type) THEN Panic
                     ELSE Ok(SetField(targetVal, j, r.v))

(***************************************************************************)
(* src/unnamed/part_001, lines 1-140: the same functions, a failing field, *)
(* element or entry being skipped instead of failing the call.             *)
(***************************************************************************)
RECURSIVE convertValueBE(_, _, _)
RECURSIVE convertStructLoopBE(_, _, _, _)
RECURSIVE convertSliceLoopBE(_, _, _, _)
RECURSIVE convertMapLoopBE(_, _, _, _, _)

convertStructLoopBE(source, target, i, ord) ==
  IF i > NumField(source) THEN Ok(target)
  ELSE IF ~Exported(TypeField(source, i).name)
  THEN convertStructLoopBE(source, target, i + 1, ord)
  ELSE IF Kind(target.t) # "struct"
  THEN Panic     \* FieldByName on a value that is no struct
  ELSE LET j == FieldByName(target.t, TypeField(source, i).name)
       IN IF ~ValidSettable(target.t, j)
          THEN convertStructLoopBE(source, target, i + 1, ord)
          ELSE LET r == convertValueBE(FieldOf(source, i), StructFields(target.t)[j].type, ord)
               IN IF r.st = "panic" THEN r
                  ELSE IF r.st = "err" THEN convertStructLoopBE(source, target, i + 1, ord)
                  ELSE IF ~AssignableTo(r.v.t, StructFields(target.t)[j].type) THEN Panic
                  ELSE convertStructLoopBE(source, SetField(target, j, r.v), i + 1, ord)

convertStructBE(source, targetType, ord) ==
  convertStructLoopBE(source, Val(targetType, Zero(targetType)), 1, ord)

convertSliceLoopBE(source, targetSlice, i, ord) ==
  IF i > Len(source.p.elems) THEN Ok(targetSlice)
  ELSE LET r == convertValueBE(Val(Elem(source.t), source.p.elems[i]), Elem(targetSlice.t), ord)
       IN IF r.st = "panic" THEN r
          ELSE IF r.st = "err" THEN convertSliceLoopBE(source, targetSlice, i + 1, ord)
          ELSE IF ~AssignableTo(r.v.t, Elem(targetSlice.t)) THEN Panic
          ELSE convertSliceLoopBE(source, [targetSlice EXCEPT !.p.elems[i] = r.v.p], i + 1, ord)

convertSliceBE(source, targetType, ord) ==
  IF Kind(targetType) # "slice" THEN Err
  ELSE convertSliceLoopBE(source, MakeSlice(targetType, Len(source.p.elems)), 1, ord)

convertMapLoopBE(source, targetMap, keys, i, ord) ==
  IF i > Len(keys) THEN Ok(targetMap)
  ELSE LET key == Val(Key(source.t), keys[i])
           ck == convertValueBE(key, Key(targetMap.t), ord)
       IN IF ck.st = "panic" THEN ck
          ELSE LET cv == convertValueBE(MapIndex(source, keys[i]), Elem(targetMap.t), ord)
               IN IF cv.st = "panic" THEN cv
                  ELSE IF ck.st = "err" \/ cv.st = "err"
                  THEN convertMapLoopBE(source, targetMap, keys, i + 1, ord)
                  ELSE IF ~AssignableTo(ck.v.t, Key(targetMap.t)) \/ ~AssignableTo(cv.v.t, Elem(targetMap.t))
                  THEN Panic
                  ELSE convertMapLoopBE(source, SetMapIndex(targetMap, ck.v, cv.v), keys, i + 1, ord)

convertMapBE(source, targetType, ord) ==
  IF Kind(targetType) # "map" THEN Err
  ELSE convertMapLoopBE(source, MakeMap(targetType), MapKeys(source, ord), 1, ord)

convertValueBE(source, targetType, ord) ==
  CASE Kind(source.t) = "struct" -> convertStructBE(source, targetType, ord)
    [] Kind(source.t) = "slice" -> convertSliceBE(source, targetType, ord)
    [] Kind(source.t) = "map" -> convertMapBE(source, targetType, ord)
    [] OTHER -> IF ~IsValid(source) THEN Panic    \* Type() of the zero Value
                ELSE IF AssignableTo(source.t, targetType) THEN Ok(source)
                ELSE Err

\* One iteration of the loop of ConvertStructs of this variant.
ConvertStructsFieldBE(sourceVal, targetVal, i, tagName, ord) ==
  LET stf == TypeField(sourceVal, i)
      tagValue == TagGet(stf, tagName)
  IN IF ~Exported(stf.name) \/ tagValue = "" THEN Ok(targetVal)
     ELSE LET j == ResolveTarget(targetVal.t, stf, tagName)
          IN IF ~ValidSettable(targetVal.t, j) THEN Ok(targetVal)
             ELSE LET r == convertValueBE(FieldOf(sourceVal, i), StructFields(targetVal.t)[j].type, ord)
                  IN IF r.st = "panic" THEN r
                     ELSE IF r.st = "err" THEN Ok(targetVal)
                     ELSE IF ~AssignableTo(r.v.t, StructFields(targetVal.t)[j].type) THEN Panic
                     ELSE Ok(SetField(targetVal, j, r.v))


(***************************************************************************)
(* src/unnamed/part_001, lines 142-490: the variant with pointer           *)
(* indirection and scalar coercion.                                        *)
(***************************************************************************)
\* reflect.Value.Elem on a pointer: the zero Value for a nil pointer.
ElemOf(v) == IF v.p = NilPtr THEN Invalid ELSE Val(Elem(v.t), v.p[1])

\* string(rune(n)) for the integers of the inputs.
RuneString(n) == CASE n = 0 -> "\\x00" [] n = 1 -> "\\x01" [] OTHER -> "\\x02.."

\* reflect.Value.Convert, for a pair ConvertibleTo accepts.  The integers of
\* the inputs fit every integer type, so a conversion between integer types
\* keeps the number and changes the type.
Convert(v, t) ==
  IF Kind(v.t) \in IntKinds /\ Kind(t) = "string" THEN Val(t, RuneString(v.p))
  ELSE Val(t, v.p)

\* handleBasicTypesAndPointers
handleBasicTypesAndPointers(source, targetType) ==
  IF ~IsValid(source) THEN Panic     \* Type() of the zero Value
  ELSE IF Kind(targetType) = "ptr"
  THEN IF AssignableTo(source.t, Elem(targetType)) THEN Ok(Val(targetType, <<source.p>>))
       ELSE IF ConvertibleTo(source.t, Elem(targetType))
       THEN Ok(Val(targetType, <<Convert(source, Elem(targetType)).p>>))
       ELSE Err
  ELSE IF AssignableTo(source.t, targetType) THEN Ok(source)
  ELSE IF ConvertibleTo(source.t, targetType) THEN Ok(Convert(source, targetType))
  ELSE Err

RECURSIVE convertValueInd(_, _, _)
RECURSIVE convertStructInd(_, _, _)
RECURSIVE convertSliceLoopInd(_, _, _, _)
RECURSIVE convertMapLoopInd(_, _, _, _, _)
RECURSIVE convertStructLoopInd(_, _, _, _)

\* targetSlice.Index(k).Set(convertedElem), r being the outcome of the
\* conversion of element k.
convertSliceSetInd(targetSlice, k, r) ==
  IF r.st # "ok" THEN r
  ELSE IF ~IsValid(r.v) THEN Err
  ELSE IF ~AssignableTo(r.v.t, Elem(targetSlice.t)) THEN Panic
  ELSE Ok([targetSlice EXCEPT !.p.elems[k] = r.v.p])

\* The loop of convertSlice goes on after iteration k, whose outcome is r.
convertSliceNextInd(source, k, ord, r) ==
  IF r.st # "ok" THEN r ELSE convertSliceLoopInd(source, r.v, k + 1, ord)

\* The loop of convertSlice from index k on (1-based).
convertSliceLoopInd(source, targetSlice, k, ord) ==
  IF k > Len(source.p.elems) THEN Ok(targetSlice)
  ELSE convertSliceNextInd(source, k, ord,
         convertSliceSetInd(targetSlice, k,
           convertValueInd(Val(Elem(source.t), source.p.elems[k]), Elem(targetSlice.t), ord)))

convertSliceInd(source, targetType, ord) ==
  IF Kind(targetType) # "slice" THEN Err
  ELSE convertSliceLoopInd(source, MakeSlice(targetType, Len(source.p.elems)), 1, ord)

\* targetMap.SetMapIndex(convertedKey, convertedValue), ck and cv being the
\* outcomes of the conversions of the key and of the value.
convertMapSetInd(targetMap, ck, cv) ==
  IF ck.st # "ok" THEN ck
  ELSE IF cv.st # "ok" THEN cv
  ELSE IF ~AssignableTo(ck.v.t, Key(targetMap.t)) \/ ~AssignableTo(cv.v.t, Elem(targetMap.t))
  THEN Panic
  ELSE Ok(SetMapIndex(targetMap, ck.v, cv.v))

\* The loop of convertMap goes on after iteration k, whose outcome is r.
convertMapNextInd(source, keys, k, ord, r) ==
  IF r.st # "ok" THEN r ELSE convertMapLoopInd(source, r.v, keys, k + 1, ord)

\* The loop of convertMap over keys, the keys in iteration order, from the k-th on.
convertMapLoopInd(source, targetMap, keys, k, ord) ==
  IF k > Len(keys) THEN Ok(targetMap)
  ELSE convertMapNextInd(source, keys, k, ord,
         convertMapSetInd(targetMap,
           convertValueInd(Val(Key(source.t), keys[k]), Key(targetMap.t), ord),
           convertValueInd(MapIndex(source, keys[k]), Elem(targetMap.t), ord)))

convertMapInd(source, targetType, ord) ==
  IF Kind(targetType) # "map" THEN Err
  ELSE convertMapLoopInd(source, MakeMap(targetType), MapKeys(source, ord), 1, ord)

\* convertBasedOnKind
convertBasedOnKindInd(source, targetType, ord) ==
  IF Kind(source.t) = "ptr" /\ IsNil(source) THEN Ok(Val(targetType, Zero(targetType)))
  ELSE LET src == IF Kind(source.t) = "ptr" THEN ElemOf(source) ELSE source
       IN CASE Kind(src.t) = "struct" -> convertStructInd(src, targetType, ord)
            [] Kind(src.t) = "slice" -> convertSliceInd(src, targetType, ord)
            [] Kind(src.t) = "map" -> convertMapInd(src, targetType, ord)
            [] OTHER -> handleBasicTypesAndPointers(src, targetType)

\* val.Addr() of the record a conversion c produced.
AddrOf(c) == IF c.st = "ok" THEN Ok(Val(PtrTo(c.v.t), <<c.v.p>>)) ELSE c

\* The switch of convertStruct on the kind of a source field: the value to
\* set into a target field of type ft, or the error of the field.
convertStructFieldInd(sourceField, ft, ord) ==
  CASE Kind(sourceField.t) = "struct" ->
         IF Kind(ft) = "ptr" THEN AddrOf(convertStructInd(sourceField, Elem(ft), ord))
         ELSE convertStructInd(sourceField, ft, ord)
    [] Kind(sourceField.t) = "slice" -> convertSliceInd(sourceField, ft, ord)
    [] Kind(sourceField.t) = "map" -> convertMapInd(sourceField, ft, ord)
    [] OTHER ->
         IF AssignableTo(sourceField.t, ft) THEN Ok(sourceField)
         ELSE convertValueInd(sourceField, ft, ord)

\* targetField.Set(...) on field j of target, r being the outcome of the
\* switch; a nil error with an invalid value leaves the field alone.
convertStructSetInd(target, j, r) ==
  IF r.st # "ok" THEN r
  ELSE IF ~IsValid(r.v) THEN Ok(target)
  ELSE IF ~AssignableTo(r.v.t, StructFields(target.t)[j].type) THEN Panic
  ELSE Ok(SetField(target, j, r.v))

\* The loop of convertStruct goes on after iteration k, whose outcome is r.
convertStructNextInd(source, k, ord, r) ==
  IF r.st # "ok" THEN r ELSE convertStructLoopInd(source, r.v, k + 1, ord)

\* The loop of convertStruct from field k on; target is the record built so far.
convertStructLoopInd(source, target, k, ord) ==
  IF k > NumField(source) THEN Ok(target)
  ELSE LET j == FieldByName(target.t, TypeField(source, k).name)
       IN IF ~ValidSettable(target.t, j)
          THEN convertStructLoopInd(source, target, k + 1, ord)
          ELSE convertStructNextInd(source, k, ord,
                 convertStructSetInd(target, j,
                   convertStructFieldInd(FieldOf(source, k), StructFields(target.t)[j].type, ord)))

convertStructInd(source, targetType, ord) ==
  LET src == IF Kind(source.t) = "ptr" THEN ElemOf(source) ELSE source
      tt == IF Kind(targetType) = "ptr" THEN Elem(targetType) ELSE targetType
  IN IF Kind(src.t) # "struct" \/ Kind(tt) # "struct" THEN Err
     ELSE convertStructLoopInd(src, Val(tt, Zero(tt)), 1, ord)

\* targetPtr.Elem().Set(converted); return targetPtr
PtrSetInd(targetType, converted) ==
  IF converted.st # "ok" THEN converted
  ELSE IF ~AssignableTo(converted.v.t, Elem(targetType)) THEN Panic
  ELSE Ok(Val(targetType, <<converted.v.p>>))

convertValueInd(source, targetType, ord) ==
  IF ~IsValid(source) THEN Ok(Val(targetType, Zero(targetType)))
  ELSE IF Kind(targetType) = "ptr"
  THEN PtrSetInd(targetType,
         convertValueInd(IF Kind(source.t) = "ptr" THEN ElemOf(source) ELSE source,
                         Elem(targetType), ord))
  ELSE IF Kind(source.t) = "ptr" THEN convertValueInd(ElemOf(source), targetType, ord)
  ELSE IF Kind(source.t) \in {"struct", "slice", "map"}
  THEN convertBasedOnKindInd(source, targetType, ord)
  ELSE IF AssignableTo(source.t, targetType) THEN Ok(source)
  ELSE IF ConvertibleTo(source.t, targetType) THEN Ok(Convert(source, targetType))
  ELSE Err

\* The value handleSetField returns for a source field that is not
\* assignable and not nil, src being the field with a pointer dereferenced.
handleSetFieldConvert(src, ft, ord) ==
  IF Kind(src.t) \in {"struct", "slice", "map"} THEN convertBasedOnKindInd(src, ft, ord)
  ELSE IF AssignableTo(src.t, ft) THEN Ok(src)
  ELSE IF ConvertibleTo(src.t, ft) THEN Ok(Convert(src, ft))
  ELSE Err

\* handleSetField(sourceField, targetField), targetField being field j of
\* targetVal (0: the zero Value): the outcome (value returned, error or
\* panic) and the target after the call.
handleSetField(sourceField, targetVal, j, ord) ==
  IF j = 0 THEN [r |-> Ok(Invalid), target |-> targetVal]
  ELSE IF AssignableTo(sourceField.t, StructFields(targetVal.t)[j].type)
  THEN IF ~ValidSettable(targetVal.t, j)
       THEN [r |-> Panic, target |-> targetVal]
       ELSE [r |-> Ok(Invalid), target |-> SetField(targetVal, j, sourceField)]
  ELSE IF Kind(sourceField.t) \notin {"ptr", "slice", "map"}
  THEN [r |-> Panic, target |-> targetVal]    \* IsNil of a struct or scalar
  ELSE IF IsNil(sourceField)
  THEN [r |-> Ok(Invalid), target |-> targetVal]
  ELSE [r |-> handleSetFieldConvert(
                IF Kind(sourceField.t) = "ptr" THEN ElemOf(sourceField) ELSE sourceField,
                StructFields(targetVal.t)[j].type, ord),
        target |-> targetVal]

\* The value ConvertStructs sets for a converted record, slice or map c into
\* a target field of type ft: its address, what it points to, or itself.
SetConverted(targetVal, j, c) ==
  LET ft == StructFields(targetVal.t)[j].type
      set == IF Kind(ft) = "ptr" /\ Kind(c.v.t) # "ptr" THEN Val(PtrTo(c.v.t), <<c.v.p>>)
             ELSE IF Kind(ft) # "ptr" /\ Kind(c.v.t) = "ptr" THEN ElemOf(c.v)
             ELSE c.v
  IN IF c.st # "ok" THEN c
     ELSE IF ~IsValid(set) \/ ~AssignableTo(set.t, ft) THEN Panic
     ELSE Ok(SetField(targetVal, j, set))

\* ConvertStructs after handleSetField, whose outcome is h.
ConvertStructsAfterSet(sourceField, j, h, ord) ==
  IF h.r.st # "ok" THEN h.r
  ELSE IF Kind(h.r.v.t) \in {"struct", "slice", "map"}
  THEN SetConverted(h.target, j,
         convertBasedOnKindInd(sourceField, StructFields(h.target.t)[j].type, ord))
  ELSE IF j = 0 THEN Panic      \* Type() of the zero Value targetField
  ELSE IF AssignableTo(sourceField.t, StructFields(h.target.t)[j].type)
  THEN Ok(SetField(h.target, j, sourceField))
  ELSE Ok(h.target)              \* the converted value is dropped

\* One iteration of the loop of ConvertStructs of this variant.  ord1 and
\* ord2 are the iteration orders of the two conversions it makes.
ConvertStructsFieldInd(sourceVal, targetVal, i, tagName, ord1, ord2) ==
  LET stf == TypeField(sourceVal, i)
      j == ResolveTarget(targetVal.t, stf, tagName)
  IN IF ~Exported(stf.name) THEN Ok(targetVal)
     ELSE IF tagName # "" /\ ~ValidSettable(targetVal.t, j) THEN Ok(targetVal)
     ELSE ConvertStructsAfterSet(FieldOf(sourceVal, i), j,
            handleSetField(FieldOf(sourceVal, i), targetVal, j, ord1), ord2)

(***************************************************************************)
(* Storage.  A non-nil pointer, a slice with elements and a non-nil map    *)
(* refer to storage (a pointee, an array, a hash table); a copy of such a  *)
(* value shares the storage with the original.  The values nested in the   *)
(* inputs (elements, keys, map values, fields of records) hold no          *)
(* reference, so a conversion can share storage with its source only by    *)
(* handing on the source value as it is.                                   *)
(***************************************************************************)
\* The value v refers to storage one can write through.
HoldsRef(v) ==
  CASE Kind(v.t) = "ptr" -> v.p # NilPtr
    [] Kind(v.t) = "slice" -> Len(v.p.elems) > 0
    [] Kind(v.t) = "map" -> ~v.p.isNil
    [] OTHER -> FALSE

\* convertValue of converter.go returns source itself (line 19), and source
\* refers to storage.
SharesSource(source, targetType) ==
  /\ Kind(source.t) \notin {"struct", "slice", "map"}
  /\ AssignableTo(source.t, targetType)
  /\ HoldsRef(source)

\* The same for convertValue of part_001, line 9 (return at line 21).
SharesSourceBE(source, targetType) ==
  /\ Kind(source.t) \notin {"struct", "slice", "map"}
  /\ AssignableTo(source.t, targetType)
  /\ HoldsRef(source)

\* The same for convertValue of part_001, line 151: a pointer source is
\* dereferenced and copied, source itself is returned at line 189 only.
SharesSourceInd(source, targetType) ==
  /\ Kind(targetType) # "ptr"
  /\ Kind(source.t) \notin {"ptr", "struct", "slice", "map"}
  /\ AssignableTo(source.t, targetType)
  /\ HoldsRef(source)

\* The pairs <<j, i>> such that the iteration of ConvertStructs of
\* converter.go on source field i sets into target field j a value that
\* shares its storage with the source field (lines 125-130).
ConvertStructsFieldShares(sourceVal, targetVal, i, tagName) ==
  LET stf == TypeField(sourceVal, i)
      j == ResolveTarget(targetVal.t, stf, tagName)
  IN IF ~Exported(stf.name) \/ TagGet(stf, tagName) = "" THEN {}
     ELSE IF ~ValidSettable(targetVal.t, j) THEN {}
     ELSE IF SharesSource(FieldOf(sourceVal, i), StructFields(targetVal.t)[j].type)
     THEN {<<j, i>>} ELSE {}

\* The same for ConvertStructs of part_001, line 87 (lines 131-136).
ConvertStructsFieldSharesBE(sourceVal, targetVal, i, tagName) ==
  LET stf == TypeField(sourceVal, i)
      j == ResolveTarget(targetVal.t, stf, tagName)
  IN IF ~Exported(stf.name) \/ TagGet(stf, tagName) = "" THEN {}
     ELSE IF ~ValidSettable(targetVal.t, j) THEN {}
     ELSE IF SharesSourceBE(FieldOf(sourceVal, i), StructFields(targetVal.t)[j].type)
     THEN {<<j, i>>} ELSE {}

\* The same for ConvertStructs of part_001, line 386: handleSetField sets
\* an assignable source field as it is (lines 466-467); every other value
\* set is built by convertBasedOnKind.
ConvertStructsFieldSharesInd(sourceVal, targetVal, i, tagName) ==
  LET stf == TypeField(sourceVal, i)
      j == ResolveTarget(targetVal.t, stf, tagName)
  IN IF ~Exported(stf.name) THEN {}
     ELSE IF j = 0 \/ (tagName # "" /\ ~ValidSettable(targetVal.t, j)) THEN {}
     ELSE IF /\ AssignableTo(FieldOf(sourceVal, i).t, StructFields(targetVal.t)[j].type)
             /\ HoldsRef(FieldOf(sourceVal, i))
     THEN {<<j, i>>} ELSE {}

(***************************************************************************)
(* The calls.  A call is a function of the package with its source value   *)
(* and its target type; the operators below give, for one call, the calls  *)
(* its body makes, in the order it makes them.  A loop makes no further    *)
(* call once an iteration has failed.  handleSetField and                  *)
(* handleBasicTypesAndPointers call nothing that calls back; the call      *)
(* handleSetField makes is counted as a call of ConvertStructs.            *)
(***************************************************************************)
Call(fn, s, t) == [fn |-> fn, s |-> s, t |-> t]

\* The calls of a loop: those of one iteration and, when the iteration
\* has not failed, those of the iterations after it.
ThenCalls(calls, ok, rest) == IF ok THEN calls \o rest ELSE calls

\* The conversion whose outcome is r has not failed and Set of its value
\* into a place of type t does not panic.
Sets(r, t) == r.st = "ok" /\ AssignableTo(r.v.t, t)

RECURSIVE convertStructCalls(_, _, _, _)
RECURSIVE convertSliceCalls(_, _, _, _)
RECURSIVE convertMapCalls(_, _, _, _, _)
RECURSIVE ConvertStructsCalls(_, _, _, _, _)

\* converter.go: the calls of the loop of convertStruct from field i on.
convertStructCalls(source, targetType, i, ord) ==
  IF i > NumField(source) THEN <<>>
  ELSE IF ~Exported(TypeField(source, i).name)
  THEN convertStructCalls(source, targetType, i + 1, ord)
  ELSE IF Kind(targetType) # "struct" THEN <<>>
  ELSE IF ~ValidSettable(targetType, FieldByName(targetType, TypeField(source, i).name))
  THEN convertStructCalls(source, targetType, i + 1, ord)
  ELSE ThenCalls(
         <<Call("convertValue", FieldOf(source, i),
                StructFields(targetType)[FieldByName(targetType, TypeField(source, i).name)].type)>>,
         Sets(convertValue(FieldOf(source, i),
                StructFields(targetType)[FieldByName(targetType, TypeField(source, i).name)].type, ord),
              StructFields(targetType)[FieldByName(targetType, TypeField(source, i).name)].type),
         convertStructCalls(source, targetType, i + 1, ord))

\* converter.go: the calls of the loop of convertSlice from index i on.
convertSliceCalls(source, targetType, i, ord) ==
  IF i > Len(source.p.elems) THEN <<>>
  ELSE ThenCalls(
         <<Call("convertValue", Val(Elem(source.t), source.p.elems[i]), Elem(targetType))>>,
         Sets(convertValue(Val(Elem(source.t), source.p.elems[i]), Elem(targetType), ord),
              Elem(targetType)),
         convertSliceCalls(source, targetType, i + 1, ord))

\* converter.go: the calls of the loop of convertMap from the i-th key on:
\* the key is converted, and the value when the key has not failed.
convertMapCalls(source, targetType, keys, i, ord) ==
  IF i > Len(keys) THEN <<>>
  ELSE ThenCalls(
         <<Call("convertValue", Val(Key(source.t), keys[i]), Key(targetType))>>,
         convertValue(Val(Key(source.t), keys[i]), Key(targetType), ord).st = "ok",
         ThenCalls(
           <<Call("convertValue", MapIndex(source, keys[i]), Elem(targetType))>>,
           /\ Sets(convertValue(Val(Key(source.t), keys[i]), Key(targetType), ord), Key(targetType))
           /\ Sets(convertValue(MapIndex(source, keys[i]), Elem(targetType), ord), Elem(targetType)),
           convertMapCalls(source, targetType, keys, i + 1, ord)))

\* converter.go: the calls of the loop of ConvertStructs from field i on.
ConvertStructsCalls(sourceVal, targetType, tagName, i, ord) ==
  IF i > NumField(sourceVal) THEN <<>>
  ELSE IF \/ ~Exported(TypeField(sourceVal, i).name)
          \/ TagGet(TypeField(sourceVal, i), tagName) = ""
          \/ ~ValidSettable(targetType, ResolveTarget(targetType, TypeField(sourceVal, i), tagName))
  THEN ConvertStructsCalls(sourceVal, targetType, tagName, i + 1, ord)
  ELSE ThenCalls(
         <<Call("convertValue", FieldOf(sourceVal, i),
                StructFields(targetType)[ResolveTarget(targetType, TypeField(sourceVal, i), tagName)].type)>>,
         ConvertStructsField(sourceVal, Val(targetType, Zero(targetType)), i, tagName, ord).st = "ok",
         ConvertStructsCalls(sourceVal, targetType, tagName, i + 1, ord))

\* converter.go: the calls the body of the call c makes.
Callees(c, tagName, ord) ==
  CASE c.fn = "ConvertStructs" ->
         IF Kind(c.s.t) # "struct" \/ Kind(c.t) # "struct" THEN <<>>
         ELSE ConvertStructsCalls(c.s, c.t, tagName, 1, ord)
    [] c.fn = "convertValue" ->
         IF Kind(c.s.t) = "struct" THEN <<Call("convertStruct", c.s, c.t)>>
         ELSE IF Kind(c.s.t) = "slice" THEN <<Call("convertSlice", c.s, c.t)>>
         ELSE IF Kind(c.s.t) = "map" THEN <<Call("convertMap", c.s, c.t)>>
         ELSE <<>>
    [] c.fn = "convertStruct" -> convertStructCalls(c.s, c.t, 1, ord)
    [] c.fn = "convertSlice" ->
         IF Kind(c.t) # "slice" THEN <<>> ELSE convertSliceCalls(c.s, c.t, 1, ord)
    [] c.fn = "convertMap" ->
         IF Kind(c.t) # "map" THEN <<>>
         ELSE convertMapCalls(c.s, c.t, MapKeys(c.s, ord), 1, ord)

RECURSIVE convertStructCallsInd(_, _, _, _, _)
RECURSIVE convertSliceCallsInd(_, _, _, _, _)
RECURSIVE convertMapCallsInd(_, _, _, _, _, _)
RECURSIVE ConvertStructsCallsInd(_, _, _, _, _, _)

(***************************************************************************)
(* part_001, line 142 on.  The operators that give the calls of a loop     *)
(* take the outcomes of the calls as a function run from calls to          *)
(* outcomes; with all set they give every call the loop makes when no      *)
(* iteration fails, and run is not looked at.                              *)
(***************************************************************************)
\* The outcome of the call c.
RunInd(c, ord) ==
  CASE c.fn = "convertValue" -> convertValueInd(c.s, c.t, ord)
    [] c.fn = "convertBasedOnKind" -> convertBasedOnKindInd(c.s, c.t, ord)
    [] c.fn = "convertStruct" -> convertStructInd(c.s, c.t, ord)
    [] c.fn = "convertSlice" -> convertSliceInd(c.s, c.t, ord)
    [] c.fn = "convertMap" -> convertMapInd(c.s, c.t, ord)

\* part_001, line 258: the calls of the switch of convertStruct on the
\* kind of a source field, ft being the type of the target field.
convertStructFieldCallsInd(sourceField, ft) ==
  CASE Kind(sourceField.t) = "struct" ->
         <<Call("convertStruct", sourceField, IF Kind(ft) = "ptr" THEN Elem(ft) ELSE ft)>>
    [] Kind(sourceField.t) = "slice" -> <<Call("convertSlice", sourceField, ft)>>
    [] Kind(sourceField.t) = "map" -> <<Call("convertMap", sourceField, ft)>>
    [] OTHER ->
         IF AssignableTo(sourceField.t, ft) THEN <<>>
         ELSE <<Call("convertValue", sourceField, ft)>>

\* part_001, line 258: the outcome of that switch: the value to set into
\* the target field, or the error of the field.
convertStructFieldRun(sourceField, ft, run) ==
  IF Kind(sourceField.t) = "struct" /\ Kind(ft) = "ptr"
  THEN AddrOf(run[convertStructFieldCallsInd(sourceField, ft)[1]])
  ELSE IF Kind(sourceField.t) \notin {"struct", "slice", "map"} /\ AssignableTo(sourceField.t, ft)
  THEN Ok(sourceField)
  ELSE run[convertStructFieldCallsInd(sourceField, ft)[1]]

\* part_001, line 258: the calls of the loop of convertStruct from field k
\* on, source and targetType being records.
convertStructCallsInd(source, targetType, k, all, run) ==
  IF k > NumField(source) THEN <<>>
  ELSE IF ~ValidSettable(targetType, FieldByName(targetType, TypeField(source, k).name))
  THEN convertStructCallsInd(source, targetType, k + 1, all, run)
  ELSE ThenCalls(
         convertStructFieldCallsInd(FieldOf(source, k),
           StructFields(targetType)[FieldByName(targetType, TypeField(source, k).name)].type),
         all \/ convertStructSetInd(Val(targetType, Zero(targetType)),
                  FieldByName(targetType, TypeField(source, k).name),
                  convertStructFieldRun(FieldOf(source, k),
                    StructFields(targetType)[FieldByName(targetType, TypeField(source, k).name)].type,
                    run)).st = "ok",
         convertStructCallsInd(source, targetType, k + 1, all, run))

\* part_001, line 340: the calls of the loop of convertSlice from index k on.
convertSliceCallsInd(source, targetType, k, all, run) ==
  IF k > Len(source.p.elems) THEN <<>>
  ELSE ThenCalls(
         <<Call("convertValue", Val(Elem(source.t), source.p.elems[k]), Elem(targetType))>>,
         all \/ convertSliceSetInd(MakeSlice(targetType, Len(source.p.elems)), k,
                  run[Call("convertValue", Val(Elem(source.t), source.p.elems[k]),
                           Elem(targetType))]).st = "ok",
         convertSliceCallsInd(source, targetType, k + 1, all, run))

\* part_001, line 364: the calls of the loop of convertMap from the k-th
\* key on: the key is converted, and the value when the key has not failed.
convertMapCallsInd(source, targetType, keys, k, all, run) ==
  IF k > Len(keys) THEN <<>>
  ELSE ThenCalls(
         <<Call("convertValue", Val(Key(source.t), keys[k]), Key(targetType))>>,
         all \/ run[Call("convertValue", Val(Key(source.t), keys[k]), Key(targetType))].st = "ok",
         ThenCalls(
           <<Call("convertValue", MapIndex(source, keys[k]), Elem(targetType))>>,
           all \/ convertMapSetInd(MakeMap(targetType),
                    run[Call("convertValue", Val(Key(source.t), keys[k]), Key(targetType))],
                    run[Call("convertValue", MapIndex(source, keys[k]), Elem(targetType))]).st = "ok",
           convertMapCallsInd(source, targetType, keys, k + 1, all, run)))

\* part_001, line 151: the call convertValue makes, done wrong: for a
\* pointer target the call is repeated with the pointer type itself.
convertValueCallsSame(source, targetType) ==
  IF ~IsValid(source) THEN <<>>
  ELSE IF Kind(targetType) = "ptr"
  THEN <<Call("convertValue", IF Kind(source.t) = "ptr" THEN ElemOf(source) ELSE source,
              targetType)>>
  ELSE IF Kind(source.t) = "ptr" THEN <<Call("convertValue", ElemOf(source), targetType)>>
  ELSE IF Kind(source.t) \in {"struct", "slice", "map"}
  THEN <<Call("convertBasedOnKind", source, targetType)>>
  ELSE <<>>

\* part_001, line 151: the call convertValue makes.
convertValueCallsInd(source, targetType) ==
  IF ~IsValid(source) THEN <<>>
  ELSE IF Kind(targetType) = "ptr"
  THEN <<Call("convertValue", IF Kind(source.t) = "ptr" THEN ElemOf(source) ELSE source,
              Elem(targetType))>>
  ELSE IF Kind(source.t) = "ptr" THEN <<Call("convertValue", ElemOf(source), targetType)>>
  ELSE IF Kind(source.t) \in {"struct", "slice", "map"}
  THEN <<Call("convertBasedOnKind", source, targetType)>>
  ELSE <<>>

\* part_001, line 197: the call convertBasedOnKind makes.
convertBasedOnKindCallsInd(source, targetType) ==
  IF Kind(source.t) = "ptr" /\ IsNil(source) THEN <<>>
  ELSE LET src == IF Kind(source.t) = "ptr" THEN ElemOf(source) ELSE source
       IN CASE Kind(src.t) = "struct" -> <<Call("convertStruct", src, targetType)>>
            [] Kind(src.t) = "slice" -> <<Call("convertSlice", src, targetType)>>
            [] Kind(src.t) = "map" -> <<Call("convertMap", src, targetType)>>
            [] OTHER -> <<>>

\* part_001, line 462: the call handleSetField makes for a source field
\* and target field j of a record of type targetType (0: the zero Value).
handleSetFieldCalls(sourceField, targetType, j) ==
  IF j = 0 THEN <<>>
  ELSE IF AssignableTo(sourceField.t, StructFields(targetType)[j].type) THEN <<>>
  ELSE IF Kind(sourceField.t) \notin {"ptr", "slice", "map"} THEN <<>>
  ELSE IF IsNil(sourceField) THEN <<>>
  ELSE LET src == IF Kind(sourceField.t) = "ptr" THEN ElemOf(sourceField) ELSE sourceField
       IN IF Kind(src.t) \in {"struct", "slice", "map"}
          THEN <<Call("convertBasedOnKind", src, StructFields(targetType)[j].type)>>
          ELSE <<>>

\* part_001, line 462: what handleSetField returns (the value, an error or
\* a panic).
handleSetFieldRun(sourceField, targetType, j, run) ==
  IF j = 0 THEN Ok(Invalid)
  ELSE IF AssignableTo(sourceField.t, StructFields(targetType)[j].type)
  THEN IF ~ValidSettable(targetType, j) THEN Panic ELSE Ok(Invalid)
  ELSE IF Kind(sourceField.t) \notin {"ptr", "slice", "map"} THEN Panic
  ELSE IF IsNil(sourceField) THEN Ok(Invalid)
  ELSE LET src == IF Kind(sourceField.t) = "ptr" THEN ElemOf(sourceField) ELSE sourceField
       IN IF Kind(src.t) \in {"struct", "slice", "map"}
          THEN run[Call("convertBasedOnKind", src, StructFields(targetType)[j].type)]
          ELSE IF AssignableTo(src.t, StructFields(targetType)[j].type) THEN Ok(src)
          ELSE IF ConvertibleTo(src.t, StructFields(targetType)[j].type)
          THEN Ok(Convert(src, StructFields(targetType)[j].type))
          ELSE Err

\* part_001, line 386: ConvertStructs converts the field a second time:
\* handleSetField has returned a record, a slice or a map.
ConvertsAgain(sourceField, targetType, j, run) ==
  /\ handleSetFieldRun(sourceField, targetType, j, run).st = "ok"
  /\ Kind(handleSetFieldRun(sourceField, targetType, j, run).v.t) \in {"struct", "slice", "map"}

\* part_001, line 386: the iteration of the loop of ConvertStructs on a
\* source field does not fail.
ConvertStructsGoesOn(sourceField, targetType, j, run) ==
  /\ handleSetFieldRun(sourceField, targetType, j, run).st = "ok"
  /\ IF ConvertsAgain(sourceField, targetType, j, run)
     THEN SetConverted(Val(targetType, Zero(targetType)), j,
            run[Call("convertBasedOnKind", sourceField, StructFields(targetType)[j].type)]).st = "ok"
     ELSE j # 0

\* part_001, line 386: the calls of one iteration of the loop of
\* ConvertStructs that reaches handleSetField: the call handleSetField
\* makes and, when it returns a record, slice or map, the second conversion.
ConvertStructsFieldCallsInd(sourceField, targetType, j, all, run) ==
  ThenCalls(handleSetFieldCalls(sourceField, targetType, j),
            IF all THEN handleSetFieldCalls(sourceField, targetType, j) # <<>>
            ELSE ConvertsAgain(sourceField, targetType, j, run),
            <<Call("convertBasedOnKind", sourceField, StructFields(targetType)[j].type)>>)

\* part_001, line 386: the calls of the loop of ConvertStructs from field i on.
ConvertStructsCallsInd(sourceVal, targetType, tagName, i, all, run) ==
  IF i > NumField(sourceVal) THEN <<>>
  ELSE IF \/ ~Exported(TypeField(sourceVal, i).name)
          \/ /\ tagName # ""
             /\ ~ValidSettable(targetType, ResolveTarget(targetType, TypeField(sourceVal, i), tagName))
  THEN ConvertStructsCallsInd(sourceVal, targetType, tagName, i + 1, all, run)
  ELSE ThenCalls(
         ConvertStructsFieldCallsInd(FieldOf(sourceVal, i), targetType,
           ResolveTarget(targetType, TypeField(sourceVal, i), tagName), all, run),
         all \/ ConvertStructsGoesOn(FieldOf(sourceVal, i), targetType,
                  ResolveTarget(targetType, TypeField(sourceVal, i), tagName), run),
         ConvertStructsCallsInd(sourceVal, targetType, tagName, i + 1, all, run))

\* part_001, line 142 on: the calls the body of the call c makes, given
\* the outcomes run of the calls (all: when no iteration fails).
CallsInd(c, tagName, ord, all, run) ==
  CASE c.fn = "ConvertStructs" ->
         IF Kind(c.s.t) # "struct" \/ Kind(c.t) # "struct" THEN <<>>
         ELSE ConvertStructsCallsInd(c.s, c.t, tagName, 1, all, run)
    [] c.fn = "convertValue" -> convertValueCallsInd(c.s, c.t)
    [] c.fn = "convertBasedOnKind" -> convertBasedOnKindCallsInd(c.s, c.t)
    [] c.fn = "convertStruct" ->
         LET src == IF Kind(c.s.t) = "ptr" THEN ElemOf(c.s) ELSE c.s
             tt == IF Kind(c.t) = "ptr" THEN Elem(c.t) ELSE c.t
         IN IF Kind(src.t) # "struct" \/ Kind(tt) # "struct" THEN <<>>
            ELSE convertStructCallsInd(src, tt, 1, all, run)
    [] c.fn = "convertSlice" ->
         IF Kind(c.t) # "slice" THEN <<>> ELSE convertSliceCallsInd(c.s, c.t, 1, all, run)
    [] c.fn = "convertMap" ->
         IF Kind(c.t) # "map" THEN <<>>
         ELSE convertMapCallsInd(c.s, c.t, MapKeys(c.s, ord), 1, all, run)

\* The outcomes of the calls cs.
RunAllInd(cs, ord) == [x \in {cs[k] : k \in 1..Len(cs)} |-> RunInd(x, ord)]

\* part_001, line 142 on: the calls the body of the call c makes.
CalleesInd(c, tagName, ord) ==
  CHOOSE cs \in {CallsInd(c, tagName, ord, FALSE, run) :
                   run \in {RunAllInd(CallsInd(c, tagName, ord, TRUE, <<>>), ord)}} : TRUE

(***************************************************************************)
(* The inputs: the values of a type, within the bounds.                    *)
(***************************************************************************)
RECURSIVE SeqsUpTo(_, _)
\* The sequences over S of length at most n.
SeqsUpTo(S, n) ==
  IF n = 0 THEN {<< >>}
  ELSE SeqsUpTo(S, n - 1) \cup {Append(q, x) : q \in {r \in SeqsUpTo(S, n - 1) : Len(r) = n - 1}, x \in S}

\* The entry sets of the maps from K to V with at most n entries.
MapsUpTo(K, V, n) ==
  UNION {{{<<k, f[k]>> : k \in ks} : f \in [ks -> V]} : ks \in {x \in SUBSET K : Cardinality(x) <= n}}

RECURSIVE AllValues(_)
RECURSIVE FieldValues(_, _)
\* The payload sequences of the first n fields of struct type t.
FieldValues(t, n) ==
  IF n = 0 THEN {<< >>}
  ELSE {Append(q, x) : q \in FieldValues(t, n - 1), x \in AllValues(StructFields(t)[n].type)}

AllValues(t) ==
  CASE Kind(t) \in IntKinds -> 0..MaxInt
    [] Kind(t) = "string" -> StrVals
    [] Kind(t) = "struct" -> FieldValues(t, Len(StructFields(t)))
    [] Kind(t) = "slice" ->
         {NilSlice} \cup {[isNil |-> FALSE, elems |-> q] : q \in SeqsUpTo(AllValues(Elem(t)), MaxLen)}
    [] Kind(t) = "map" ->
         {NilMap} \cup {[isNil |-> FALSE, entries |-> e] :
                          e \in MapsUpTo(AllValues(Key(t)), AllValues(Elem(t)), MaxLen)}
    [] Kind(t) = "ptr" -> {NilPtr} \cup {<<x>> : x \in AllValues(Elem(t))}

\* The (source type, target type) pairs of the conversions of one value.
ValuePairs ==
  { <<TInt, TInt>>, <<TInt, TInt64>>, <<TString, TInt>>,
    <<Named("Inner"), Named("Inner")>>, <<Named("Inner"), Named("InnerAC")>>,
    <<Named("Inner"), TInt>>, <<Named("InnerS"), Named("Inner")>>,
    <<Named("Priv"), Named("Priv")>>,
    <<Named("Inner"), PtrTo(Named("Inner"))>>, <<PtrTo(Named("Inner")), Named("Inner")>>,
    <<PtrTo(Named("Inner")), PtrTo(Named("Inner"))>>,
    <<SliceOf(TInt), SliceOf(TInt)>>, <<SliceOf(TInt), SliceOf(TInt64)>>,
    <<SliceOf(TString), SliceOf(TInt)>>, <<SliceOf(TInt), TInt>>,
    <<MapOf(TInt32, TInt), MapOf(TInt32, TInt)>>, <<MapOf(TInt32, TInt), MapOf(TInt64, TInt64)>>,
    <<MapOf(TString, TInt), MapOf(TInt32, TInt)>>, <<MapOf(TInt32, TString), MapOf(TInt32, TInt)>>,
    <<MapOf(Named("K2"), TString), MapOf(Named("K1"), TString)>>,
    <<MapOf(TInt32, TInt), TInt>> }

\* The (Source, Target) type arguments of the calls of ConvertStructs.
StructPairs ==
  { <<Named("Plain"), Named("Plain")>>, <<Named("Plain"), Named("Plain2")>>,
    <<Named("Tagged"), Named("TaggedT")>>, <<TInt, Named("Plain")>> }
  \cup {<<Wrap(pr[1]), Wrap(pr[2])>> : pr \in ValuePairs}

TagNames == {"", "custom_tag"}
Versions == {"converter.go", "part_001:1", "part_001:142"}

RECURSIVE ContainsMap(_)
ContainsMap(t) ==
  CASE Kind(t) = "map" -> TRUE
    [] Kind(t) \in {"slice", "ptr"} -> ContainsMap(Elem(t))
    [] Kind(t) = "struct" -> \E k \in 1..Len(StructFields(t)) : ContainsMap(StructFields(t)[k].type)
    [] OTHER -> FALSE

IdOrder == [k \in 1..MaxLen |-> k]
\* The iteration orders that matter to the conversion of a value of type t.
OrdersFor(t) == IF ContainsMap(t) THEN Orders ELSE {IdOrder}

(***************************************************************************)
(* The state machine: one call of ConvertStructs (one step per source      *)
(* field) or of convertValue, of one of the three implementations.         *)
(***************************************************************************)
VARIABLES
  ver,         \* the implementation called
  op,          \* "ConvertStructs" or "convertValue"
  source,      \* *source, resp. the source value
  targetType,  \* the type Target, resp. the target type
  tagName,     \* the tagName argument
  target,      \* *target, resp. the value convertValue returned
  i,           \* the loop index of ConvertStructs (1-based)
  pc,          \* "call", "loop", "done"
  err,         \* "nil", "err", or "panic" when the call panicked
  iter,        \* the map iteration order of the last conversion made
  shared,      \* the pairs <<j, k>>: target field j shares its storage with
               \* source field k (<<0, 0>>: the value convertValue returned
               \* shares its storage with the source value)
  stack,       \* the calls made and not yet run, each with its nesting depth
               \* (used when the calls are followed one by one)
  depth        \* the greatest nesting depth of a call run so far

vars == <<ver, op, source, targetType, tagName, target, i, pc, err, iter, shared,
          stack, depth>>

\* The arguments of the call, and the state before it.
Inputs ==
  /\ i = 1
  /\ pc = "call"
  /\ err = "nil"
  /\ iter = IdOrder
  /\ shared = {}
  /\ \/ /\ op = "ConvertStructs"
        /\ tagName \in TagNames
        /\ \E pr \in StructPairs :
             /\ targetType = pr[2]
             /\ target = Val(pr[2], Zero(pr[2]))
             /\ \E p \in AllValues(pr[1]) : source = Val(pr[1], p)
     \/ /\ op = "convertValue"
        /\ tagName = ""
        /\ target = Invalid
        /\ \E pr \in ValuePairs :
             /\ targetType = pr[2]
             /\ \E p \in AllValues(pr[1]) : source = Val(pr[1], p)

Init ==
  /\ ver \in Versions
  /\ Inputs
  /\ stack = <<>>
  /\ depth = 0

\* ConvertStructs, up to its loop: source and target must be structs.
ConvertStructsEnter ==
  /\ op = "ConvertStructs" /\ pc = "call"
  /\ IF Kind(source.t) # "struct" \/ Kind(target.t) # "struct"
     THEN pc' = "done" /\ err' = "err"
     ELSE pc' = "loop" /\ err' = err
  /\ UNCHANGED <<ver, op, source, targetType, tagName, target, i, iter, shared>>
  /\ UNCHANGED <<stack, depth>>

\* The effect of one loop iteration whose outcome is r, sh being the
\* sharing of storage the iteration brings about when it succeeds.
FieldDone(r, ord, sh) ==
  /\ iter' = ord
  /\ IF r.st = "ok"
     THEN target' = r.v /\ i' = i + 1 /\ pc' = pc /\ err' = err /\ shared' = shared \cup sh
     ELSE UNCHANGED <<target, i, shared>> /\ pc' = "done" /\ err' = r.st
  /\ UNCHANGED <<ver, op, source, targetType, tagName>>

LoopField == pc = "loop" /\ i <= NumField(source)

ConvertStructsStep ==
  /\ ver = "converter.go" /\ LoopField
  /\ \E ord \in OrdersFor(TypeField(source, i).type) :
       FieldDone(ConvertStructsField(source, target, i, tagName, ord), ord,
                 ConvertStructsFieldShares(source, target, i, tagName))
  /\ UNCHANGED <<stack, depth>>

ConvertStructsStepBE ==
  /\ ver = "part_001:1" /\ LoopField
  /\ \E ord \in OrdersFor(TypeField(source, i).type) :
       FieldDone(ConvertStructsFieldBE(source, target, i, tagName, ord), ord,
                 ConvertStructsFieldSharesBE(source, target, i, tagName))
  /\ UNCHANGED <<stack, depth>>

ConvertStructsStepInd ==
  /\ ver = "part_001:142" /\ LoopField
  /\ \E ord1, ord2 \in OrdersFor(TypeField(source, i).type) :
       FieldDone(ConvertStructsFieldInd(source, target, i, tagName, ord1, ord2), ord2,
                 ConvertStructsFieldSharesInd(source, target, i, tagName))
  /\ UNCHANGED <<stack, depth>>

\* The loop of ConvertStructs is over: return nil.
ConvertStructsReturn ==
  /\ pc = "loop" /\ i > NumField(source)
  /\ pc' = "done"
  /\ UNCHANGED <<ver, op, source, targetType, tagName, target, i, err, iter, shared>>
  /\ UNCHANGED <<stack, depth>>

\* The effect of a call of convertValue whose outcome is r, sh telling
\* whether the value returned shares its storage with the source.
ValueDone(r, ord, sh) ==
  /\ pc' = "done"
  /\ iter' = ord
  /\ shared' = IF r.st = "ok" /\ sh THEN {<<0, 0>>} ELSE {}
  /\ err' = IF r.st = "ok" THEN "nil" ELSE r.st
  /\ target' = r.v
  /\ UNCHANGED <<ver, op, source, targetType, tagName, i>>

CallConvertValue ==
  /\ op = "convertValue" /\ pc = "call" /\ ver = "converter.go"
  /\ \E ord \in OrdersFor(source.t) : ValueDone(convertValue(source, targetType, ord), ord,
                 SharesSource(source, targetType))
  /\ UNCHANGED <<stack, depth>>

CallConvertValueBE ==
  /\ op = "convertValue" /\ pc = "call" /\ ver = "part_001:1"
  /\ \E ord \in OrdersFor(source.t) : ValueDone(convertValueBE(source, targetType, ord), ord,
                 SharesSourceBE(source, targetType))
  /\ UNCHANGED <<stack, depth>>

CallConvertValueInd ==
  /\ op = "convertValue" /\ pc = "call" /\ ver = "part_001:142"
  /\ \E ord \in OrdersFor(source.t) : ValueDone(convertValueInd(source, targetType, ord), ord,
                 SharesSourceInd(source, targetType))
  /\ UNCHANGED <<stack, depth>>

\* The values the storage of v can hold after one write through v: an
\* assignment to the pointee, to the first element, to the entry of the
\* zero key.
Writes(v) ==
  CASE Kind(v.t) = "ptr" ->
         {Val(v.t, <<x>>) : x \in AllValues(Elem(v.t)) \ {v.p[1]}}
    [] Kind(v.t) = "slice" ->
         {[v EXCEPT !.p.elems[1] = x] : x \in AllValues(Elem(v.t)) \ {v.p.elems[1]}}
    [] Kind(v.t) = "map" ->
         {SetMapIndex(v, Val(Key(v.t), Zero(Key(v.t))), Val(Elem(v.t), x)) :
            x \in AllValues(Elem(v.t))} \ {v}

\* After a successful call, the caller writes through a reference held in
\* the target; the write is seen through every value sharing that storage.
WriteThroughTarget ==
  /\ pc = "done" /\ err = "nil"
  /\ pc' = "written"
  /\ \/ /\ op = "ConvertStructs"
        /\ \E j \in 1..NumField(target) :
             /\ HoldsRef(FieldOf(target, j))
             /\ \E w \in Writes(FieldOf(target, j)) :
                  /\ target' = SetField(target, j, w)
                  /\ source' = IF \E k \in 1..NumField(source) : <<j, k>> \in shared
                                THEN SetField(source, CHOOSE k \in 1..NumField(source) : <<j, k>> \in shared, w)
                                ELSE source
     \/ /\ op = "convertValue"
        /\ HoldsRef(target)
        /\ \E w \in Writes(target) :
             /\ target' = w
             /\ source' = IF <<0, 0>> \in shared THEN w ELSE source
  /\ UNCHANGED <<ver, op, targetType, tagName, i, err, iter, shared>>
  /\ UNCHANGED <<stack, depth>>

Next ==
  \/ ConvertStructsEnter
  \/ ConvertStructsStep
  \/ ConvertStructsStepBE
  \/ ConvertStructsStepInd
  \/ ConvertStructsReturn
  \/ CallConvertValue
  \/ CallConvertValueBE
  \/ CallConvertValueInd
  \/ WriteThroughTarget

Spec == Init /\ [][Next]_vars

(***************************************************************************)
(* The same calls followed one by one: the call on top of the stack is     *)
(* run and the calls its body makes take its place, each one level deeper. *)
(* A call that calls nothing has ended (with a value, an error or a panic) *)
(* once it is run.  The goroutine of the caller runs on until the call has *)
(* returned, so a step that can be taken is taken.                         *)
(***************************************************************************)
\* The calls cs, made at nesting depth d.
AtDepth(cs, d) == [k \in 1..Len(cs) |-> [fn |-> cs[k].fn, s |-> cs[k].s, t |-> cs[k].t, d |-> d]]

RECURSIVE ZeroLeaves(_)
\* The integers and strings of v are zero, but for the keys of its maps.
\* The calls made for a value depend on its type, on which of its parts
\* are nil and on the number of its elements and entries, not on the
\* integers and strings it holds.
ZeroLeaves(v) ==
  CASE Kind(v.t) = "struct" -> \A k \in 1..NumField(v) : ZeroLeaves(FieldOf(v, k))
    [] Kind(v.t) = "slice" ->
         \A k \in 1..Len(v.p.elems) : ZeroLeaves(Val(Elem(v.t), v.p.elems[k]))
    [] Kind(v.t) = "map" -> \A e \in v.p.entries : ZeroLeaves(Val(Elem(v.t), e[2]))
    [] Kind(v.t) = "ptr" -> IF v.p = NilPtr THEN TRUE ELSE ZeroLeaves(ElemOf(v))
    [] OTHER -> v.p = Zero(v.t)

TermInit ==
  /\ ver \in {"converter.go", "part_001:142"}
  /\ Inputs
  /\ ZeroLeaves(source)
  /\ stack = AtDepth(<<Call(op, source, targetType)>>, 1)
  /\ depth = 0

\* The call on top of the stack is run: the stack after it is one of stacks.
RunCall(stacks) ==
  /\ stack' \in stacks
  /\ depth' = IF Head(stack).d > depth THEN Head(stack).d ELSE depth
  /\ UNCHANGED <<ver, op, source, targetType, tagName, target, i, pc, err, iter, shared>>

\* A call of converter.go is run.
TermCall ==
  /\ ver = "converter.go" /\ pc = "call" /\ stack # <<>>
  /\ Head(stack).d <= MaxDepth
  /\ RunCall({AtDepth(Callees(Head(stack), tagName, ord), Head(stack).d + 1) \o Tail(stack) :
               ord \in OrdersFor(Head(stack).s.t)})

\* A call of part_001, line 142 on, is run.
TermCallInd ==
  /\ ver = "part_001:142" /\ pc = "call" /\ stack # <<>>
  /\ Head(stack).d <= MaxDepth
  /\ RunCall({AtDepth(CalleesInd(Head(stack), tagName, ord), Head(stack).d + 1) \o Tail(stack) :
               ord \in OrdersFor(Head(stack).s.t)})

\* Every call made has ended: the outermost call returns.
TermReturn ==
  /\ pc = "call" /\ stack = <<>>
  /\ pc' = "done"
  /\ UNCHANGED <<ver, op, source, targetType, tagName, target, i, err, iter, shared,
                 stack, depth>>

TermNext ==
  \/ TermCall
  \/ TermCallInd
  \/ TermReturn

\* A call can be run: TermCall or TermCallInd is enabled.
CanRun == pc = "call" /\ stack # <<>> /\ Head(stack).d <= MaxDepth

\* Weak fairness of running the calls, its ENABLED written out as CanRun.
RunsOn == []<>(~CanRun) \/ []<><<TermCall \/ TermCallInd>>_vars

TermSpec == TermInit /\ [][TermNext]_vars /\ WF_vars(TermReturn) /\ RunsOn

(***************************************************************************)
(* The claims.  A call is over when pc = "done"; err then holds what it    *)
(* returned ("nil" or "err") or "panic".                                   *)
(***************************************************************************)
VA == "converter.go"
VB == "part_001:1"
VC == "part_001:142"

ConvertStructsOver == op = "ConvertStructs" /\ pc = "done" /\ Kind(source.t) = "struct"
convertValueOver == op = "convertValue" /\ pc = "done"

ScalarKinds == IntKinds \cup {"string"}

\* The exported fields of a and of b agree in names and in types.
ExportedIn(a, b) ==
  \A k \in 1..Len(StructFields(a)) :
     Exported(StructFields(a)[k].name) =>
       \E j \in 1..Len(StructFields(b)) :
          /\ StructFields(b)[j].name = StructFields(a)[k].name
          /\ StructFields(b)[j].type = StructFields(a)[k].type
IdenticalShape(a, b) ==
  Kind(a) = "struct" /\ Kind(b) = "struct" /\ ExportedIn(a, b) /\ ExportedIn(b, a)

\* C1 (Identity), as the claim states it, for the two implementations of
\* ConvertStructs it cites: called with the empty tagName on a target type
\* of identical shape, ConvertStructs returns no error and every exported
\* target field equals the source field of the same name.
C1_Identity ==
  (/\ ver \in {VA, VC}
   /\ ConvertStructsOver
   /\ tagName = ""
   /\ IdenticalShape(source.t, targetType))
  => /\ err = "nil"
     /\ \A k \in 1..NumField(source) :
          Exported(TypeField(source, k).name) =>
            target.p[FieldByName(targetType, TypeField(source, k).name)] = source.p[k]

\* Source field k carries a tag under tagName that names a settable target
\* field of the same type.
TagNamesTarget(k) ==
  /\ tagName # ""
  /\ Exported(TypeField(source, k).name)
  /\ TagGet(TypeField(source, k), tagName) # ""
  /\ ValidSettable(targetType, FieldByName(targetType, TagGet(TypeField(source, k), tagName)))
  /\ StructFields(targetType)[FieldByName(targetType, TagGet(TypeField(source, k), tagName))].type
       = TypeField(source, k).type
TagTarget(k) == FieldByName(targetType, TagGet(TypeField(source, k), tagName))

RECURSIVE Rebuilt(_, _)
\* The copy of payload p of type t that a conversion to the same type t
\* builds field by field: a scalar or a pointer is kept; a record keeps its
\* exported fields, each rebuilt, and has its unexported fields zero; a
\* slice or a map is never nil, its elements, keys and values rebuilt.
Rebuilt(t, p) ==
  CASE Kind(t) = "struct" ->
         [k \in 1..Len(StructFields(t)) |->
            IF Exported(StructFields(t)[k].name)
            THEN Rebuilt(StructFields(t)[k].type, p[k])
            ELSE Zero(StructFields(t)[k].type)]
    [] Kind(t) = "slice" ->
         [isNil |-> FALSE, elems |-> [k \in 1..Len(p.elems) |-> Rebuilt(Elem(t), p.elems[k])]]
    [] Kind(t) = "map" ->
         [isNil |-> FALSE,
          entries |-> {<<Rebuilt(Key(t), e[1]), Rebuilt(Elem(t), e[2])>> : e \in p.entries}]
    [] OTHER -> p

FallsBack(k) ==
  /\ tagName # ""
  /\ Exported(TypeField(source, k).name)
  /\ \/ TagGet(TypeField(source, k), tagName) = ""
     \/ ~ValidSettable(targetType, FieldByName(targetType, TagGet(TypeField(source, k), tagName)))
  /\ ValidSettable(targetType, FieldByName(targetType, TypeField(source, k).name))
  /\ StructFields(targetType)[FieldByName(targetType, TypeField(source, k).name)].type
       = TypeField(source, k).type

\* C3 (Fallback), as the claim states it, for the two implementations of
\* ConvertStructs it cites: after a call with a non-empty tagName that
\* returned no error, every scalar target field that has the name and type
\* of an exported source field without a usable tag holds that field's value.
C3_Fallback ==
  (ver \in {VA, VB} /\ ConvertStructsOver /\ err = "nil")
  => \A k \in 1..NumField(source) :
        (FallsBack(k) /\ Kind(TypeField(source, k).type) \in ScalarKinds) =>
          target.p[FieldByName(targetType, TypeField(source, k).name)] = source.p[k]

\* C4 (Subset tolerance), as the claim states it, for the code it cites:
\* convertStruct of converter.go turns {A, B, C} into {A, C}, keeping A and
\* C, with no error; and no call of ConvertStructs of part_001 (line 386)
\* ends in a failure at a source field that has no settable target field.
C4_SubsetTolerance ==
  /\ (ver = VA /\ convertValueOver
      /\ source.t = Named("Inner") /\ targetType = Named("InnerAC"))
     => (err = "nil" /\ target.t = targetType /\ target.p = <<source.p[1], source.p[3]>>)
  /\ (ver = VC /\ ConvertStructsOver /\ err # "nil")
     => ValidSettable(targetType, ResolveTarget(targetType, TypeField(source, i), tagName))

\* Source field k is a record, matched by its tag to a settable target field
\* declared as a scalar.
RecordIntoScalar(k) ==
  /\ tagName # ""
  /\ Exported(TypeField(source, k).name)
  /\ TagGet(TypeField(source, k), tagName) # ""
  /\ ValidSettable(targetType, TagTarget(k))
  /\ Kind(TypeField(source, k).type) = "struct"
  /\ Kind(StructFields(targetType)[TagTarget(k)].type) \in ScalarKinds

\* C5 (Failure without crash), as the claim states it: a call of
\* ConvertStructs that reaches a record field matched to a scalar target
\* field returns an error (it does not panic) and leaves that target field
\* as it was.
C5_FailureWithoutCrash ==
  (ver \in {VA, VC} /\ ConvertStructsOver)
  => \A k \in 1..NumField(source) :
        (RecordIntoScalar(k) /\ i >= k) =>
          /\ err = "err"
          /\ target.p[TagTarget(k)] = Zero(StructFields(targetType)[TagTarget(k)].type)

RECURSIVE Fails(_, _)
\* The conversion of value v to type t has to fail: v, or a part of v that
\* is converted, is a scalar or a pointer of a type neither assignable nor
\* convertible to the type it is converted to, or a slice or a map
\* converted to a type of another kind.
Fails(v, t) ==
  CASE Kind(v.t) \in ScalarKinds \cup {"ptr"} ->
         ~AssignableTo(v.t, t) /\ ~ConvertibleTo(v.t, t)
    [] Kind(v.t) = "slice" ->
         \/ Kind(t) # "slice"
         \/ \E k \in 1..Len(v.p.elems) : Fails(Val(Elem(v.t), v.p.elems[k]), Elem(t))
    [] Kind(v.t) = "map" ->
         \/ Kind(t) # "map"
         \/ \E e \in v.p.entries :
               Fails(Val(Key(v.t), e[1]), Key(t)) \/ Fails(Val(Elem(v.t), e[2]), Elem(t))
    [] Kind(v.t) = "struct" ->
         /\ Kind(t) = "struct"
         /\ \E k \in 1..NumField(v) :
               /\ Exported(TypeField(v, k).name)
               /\ ValidSettable(t, FieldByName(t, TypeField(v, k).name))
               /\ Fails(FieldOf(v, k), StructFields(t)[FieldByName(t, TypeField(v, k).name)].type)

\* A nested part of v (a field, an element, a key or a value) fails.
NestedFails(v, t) ==
  Kind(v.t) \in {"struct", "slice", "map"} /\ Kind(t) = Kind(v.t) /\ Fails(v, t)

\* Source field k is matched by its tag and its conversion has to fail.
FieldFails(k) ==
  /\ tagName # ""
  /\ Exported(TypeField(source, k).name)
  /\ TagGet(TypeField(source, k), tagName) # ""
  /\ ValidSettable(targetType, ResolveTarget(targetType, TypeField(source, k), tagName))
  /\ Fails(FieldOf(source, k),
           StructFields(targetType)[ResolveTarget(targetType, TypeField(source, k), tagName)].type)

\* Fail-fast, for the implementations in V: a nested failure fails the
\* enclosing call of convertStruct, convertSlice or convertMap, no value
\* being returned; ConvertStructs returns the error of the first failing
\* field, its loop stopping there, the target fields of the fields after it
\* left as they were.
FailFast(V) ==
  /\ (ver \in V /\ convertValueOver /\ NestedFails(source, targetType))
     => (err = "err" /\ ~IsValid(target))
  /\ (ver \in V /\ ConvertStructsOver)
     => \A k \in 1..NumField(source) :
           (FieldFails(k) /\ \A k1 \in 1..(k - 1) : ~FieldFails(k1)) =>
             /\ err = "err"
             /\ i = k
             /\ \A k2 \in (k + 1)..NumField(source) :
                  TagNamesTarget(k2) =>
                    target.p[TagTarget(k2)] = Zero(StructFields(targetType)[TagTarget(k2)].type)

\* Skip and go on, for the implementations in V: a nested failure does not
\* fail the enclosing call, which returns a value of the target type where
\* a failing field or element is zero and a failing entry is left out;
\* ConvertStructs returns nil, the fields after the failing one processed,
\* the failing field's target left as it was when the conversion of the
\* field itself returned the error (not a part nested in it).
SkipAndGoOn(V) ==
  /\ (ver \in V /\ convertValueOver /\ NestedFails(source, targetType))
     => /\ err = "nil"
        /\ target.t = targetType
        /\ Kind(targetType) = "slice" =>
             /\ Len(target.p.elems) = Len(source.p.elems)
             /\ \A k \in 1..Len(source.p.elems) :
                  Fails(Val(Elem(source.t), source.p.elems[k]), Elem(targetType)) =>
                    target.p.elems[k] = Zero(Elem(targetType))
        /\ Kind(targetType) = "map" =>
             Cardinality(target.p.entries) <=
               Cardinality({e \in source.p.entries :
                              /\ ~Fails(Val(Key(source.t), e[1]), Key(targetType))
                              /\ ~Fails(Val(Elem(source.t), e[2]), Elem(targetType))})
        /\ Kind(targetType) = "struct" =>
             \A k \in 1..NumField(source) :
                FieldByName(targetType, TypeField(source, k).name) # 0 =>
                  (Fails(FieldOf(source, k),
                         StructFields(targetType)[FieldByName(targetType, TypeField(source, k).name)].type)
                   => target.p[FieldByName(targetType, TypeField(source, k).name)]
                        = Zero(StructFields(targetType)[FieldByName(targetType, TypeField(source, k).name)].type))
  /\ (ver \in V /\ ConvertStructsOver)
     => \A k \in 1..NumField(source) :
           FieldFails(k) =>
             /\ err = "nil"
             /\ i = NumField(source) + 1
             /\ ~NestedFails(FieldOf(source, k),
                             TypeField(target, ResolveTarget(targetType, TypeField(source, k), tagName)).type)
                  => target.p[ResolveTarget(targetType, TypeField(source, k), tagName)]
                       = Zero(TypeField(target, ResolveTarget(targetType, TypeField(source, k), tagName)).type)
             /\ \A k2 \in (k + 1)..NumField(source) :
                  (TagNamesTarget(k2) /\ Kind(TypeField(source, k2).type) \in ScalarKinds) =>
                    target.p[TagTarget(k2)] = source.p[k2]

\* C6 (Fail-fast propagation), as the claim states it, for the two
\* implementations it cites: both fail fast.
C6_FailFastAsStated == FailFast({VA, VB})

\* C6 (Fail-fast propagation), amended: converter.go fails fast; the
\* implementation of part_001, lines 1-140, skips a failing field, element
\* or entry and goes on.
C6_FailFast == FailFast({VA}) /\ SkipAndGoOn({VB})

\* Witness of C6: ConvertStructs of converter.go has returned the error of
\* its first field, and the field after it, After = "a", was not processed.
C6_Witness ==
  /\ ver = VA /\ ConvertStructsOver /\ err = "err" /\ i = 1
  /\ FieldFails(1) /\ TagNamesTarget(2)
  /\ source.p[2] = "a" /\ target.p[TagTarget(2)] = ""

\* C7 (Reference unwrapping), as the claim states it, for the two
\* implementations of convertValue it cites: a non-nil pointer to a record
\* converts to the record it points to, and a record converts to a pointer
\* to a copy of it, the record types having the same shape.
C7_ReferenceUnwrapping ==
  /\ (/\ ver \in {VA, VC} /\ convertValueOver
      /\ Kind(source.t) = "ptr" /\ source.p # NilPtr
      /\ IdenticalShape(Elem(source.t), targetType))
     => (err = "nil" /\ target.t = targetType /\ target.p = source.p[1])
  /\ (/\ ver \in {VA, VC} /\ convertValueOver
      /\ Kind(targetType) = "ptr"
      /\ IdenticalShape(source.t, Elem(targetType)))
     => (err = "nil" /\ target.t = targetType /\ target.p = <<source.p>>)

\* C8 (Scalar coercion), as the claim states it, for the two
\* implementations of convertValue it cites: a scalar converts to itself
\* when the types are identical, to the coerced value when they are
\* convertible, and fails otherwise; a slice of int converts to the slice of
\* int64 with the same numbers in the same order.
C8_ScalarCoercion ==
  /\ (/\ ver \in {VA, VC} /\ convertValueOver
      /\ Kind(source.t) \in ScalarKinds /\ Kind(targetType) \in ScalarKinds)
     => IF AssignableTo(source.t, targetType)
        THEN err = "nil" /\ target = source
        ELSE IF ConvertibleTo(source.t, targetType)
        THEN err = "nil" /\ target = Convert(source, targetType)
        ELSE err = "err"
  /\ (/\ ver \in {VA, VC} /\ convertValueOver
      /\ source.t = SliceOf(TInt) /\ targetType = SliceOf(TInt64))
     => (err = "nil" /\ target.t = targetType /\ target.p.elems = source.p.elems)

\* C9 (Mapping entries preserved), as the claim states it, for the two
\* implementations of convertMap it cites: a map with int32 keys converts
\* to the map with int64 keys that has the same entries, and no other.
C9_EntriesPreserved ==
  (/\ ver \in {VA, VB} /\ convertValueOver
   /\ Kind(source.t) = "map" /\ Kind(targetType) = "map"
   /\ Key(source.t) = TInt32 /\ Key(targetType) = TInt64
   /\ Kind(Elem(source.t)) \in IntKinds /\ Kind(Elem(targetType)) \in IntKinds)
  => /\ err = "nil"
     /\ target.t = targetType
     /\ target.p.entries = source.p.entries

\* The keys of the source map in the order the call iterated over them, and
\* what the n-th of them and its value convert to (converter.go).
IterKeys == MapKeys(source, iter)
ConvertedKey(n) == convertValue(Val(Key(source.t), IterKeys[n]), Key(targetType), iter).v.p
ConvertedElem(n) == convertValue(MapIndex(source, IterKeys[n]), Elem(targetType), iter).v.p

\* The entries that survive when the later write wins: those of the keys
\* after which no key converting to the same target key is iterated.
LastWritten ==
  {<<ConvertedKey(n), ConvertedElem(n)>> :
     n \in {m \in 1..Len(IterKeys) :
              \A m2 \in (m + 1)..Len(IterKeys) : ConvertedKey(m2) # ConvertedKey(m)}}

mapConverted ==
  /\ ver = VA /\ convertValueOver /\ err = "nil"
  /\ Kind(source.t) = "map" /\ Kind(targetType) = "map"

\* C10 (Deterministic key collision), as the claim states it: a successful
\* convertMap of converter.go keeps one entry per target key, the one
\* written last, and every run on the same source map and target type, in
\* whatever order it iterates, returns this same map.
C10_DeterministicAsStated ==
  mapConverted =>
    /\ target.p.entries = LastWritten
    /\ \A ord \in Orders : convertMap(source, targetType, ord) = Ok(target)

\* C10 (Key collision), amended: a successful convertMap of converter.go
\* keeps one entry per target key, the one written last in the order in
\* which this run iterated over the source keys; the order is not fixed, so
\* which of the colliding entries survives may differ between two runs.
C10_LastWriteWins ==
  mapConverted =>
    /\ target.t = targetType
    /\ target.p.entries = LastWritten
    /\ \A e1, e2 \in target.p.entries : e1[1] = e2[1] => e1 = e2
    /\ \A e \in target.p.entries :
          \E n \in 1..Len(IterKeys) : e = <<ConvertedKey(n), ConvertedElem(n)>>

\* Witness of C10: two source keys that differ in field B only, with
\* different values, have been converted to one target key, whose single
\* entry holds the value of the key iterated last.
C10_Witness ==
  /\ mapConverted
  /\ source.t = MapOf(Named("K2"), TString) /\ targetType = MapOf(Named("K1"), TString)
  /\ Len(IterKeys) >= 2
  /\ ConvertedKey(1) = ConvertedKey(2)
  /\ ConvertedElem(1) # ConvertedElem(2)
  /\ \E e \in target.p.entries : e = <<ConvertedKey(2), ConvertedElem(2)>>
  /\ \A e \in target.p.entries : e[1] = ConvertedKey(1) => e[2] = ConvertedElem(2)

\* convertSlice was called: convertValue on a source of slice kind.
convertSliceOver == convertValueOver /\ Kind(source.t) = "slice"

\* The outcome of the conversion of the source element at index k against
\* the target element type, by the implementation called.
ElemConverted(k) ==
  IF ver = VA
  THEN convertValue(Val(Elem(source.t), source.p.elems[k]), Elem(targetType), iter)
  ELSE convertValueBE(Val(Elem(source.t), source.p.elems[k]), Elem(targetType), iter)

\* A non-slice target type makes convertSlice return an error, no value.
NonSliceTargetFails(V) ==
  (ver \in V /\ convertSliceOver /\ Kind(targetType) # "slice")
  => (err = "err" /\ ~IsValid(target))

\* A successful convertSlice returns a slice of the target type, of the
\* source's length, whose element at each index is the conversion of the
\* source element at that index.
ElementWise(V) ==
  (ver \in V /\ convertSliceOver /\ Kind(targetType) = "slice" /\ err = "nil")
  => /\ target.t = targetType
     /\ Len(target.p.elems) = Len(source.p.elems)
     /\ \A k \in 1..Len(source.p.elems) :
          /\ ElemConverted(k).st = "ok"
          /\ target.p.elems[k] = ElemConverted(k).v.p

SharedStorage == pc = "done" /\ err = "nil" /\ shared # {}

\* C12 (fresh target, untouched source): in converter.go and in part_001,
\* line 386, no step changes the source, neither a step of the conversion
\* nor a later write through a reference held in the target, and after a
\* successful call the target holds no reference to storage of the source.
C12_FreshTarget ==
  [][(ver \in {VA, VC}) => (source' = source /\ ~SharedStorage')]_vars

(***************************************************************************)
(* Termination, of the calls followed one by one (TermSpec).               *)
(***************************************************************************)
\* The greatest number of a finite set of naturals that is not empty.
Max(S) == CHOOSE x \in S : \A y \in S : y <= x

RECURSIVE Height(_)
RECURSIVE TypeHeight(_)

\* The height of a value: every part of a value (a field, an element, a
\* key, a map value, a pointee) is strictly lower than the value.
Height(v) ==
  CASE ~IsValid(v) -> 0
    [] Kind(v.t) = "struct" ->
         1 + Max({0} \cup {Height(FieldOf(v, k)) : k \in 1..NumField(v)})
    [] Kind(v.t) = "slice" ->
         1 + Max({0} \cup {Height(Val(Elem(v.t), v.p.elems[k])) : k \in 1..Len(v.p.elems)})
    [] Kind(v.t) = "map" ->
         1 + Max({0} \cup {Height(Val(Key(v.t), e[1])) : e \in v.p.entries}
                     \cup {Height(Val(Elem(v.t), e[2])) : e \in v.p.entries})
    [] Kind(v.t) = "ptr" -> 1 + Height(ElemOf(v))
    [] OTHER -> 1

\* The height of a type.
TypeHeight(t) ==
  CASE Kind(t) = "struct" ->
         1 + Max({0} \cup {TypeHeight(StructFields(t)[k].type) : k \in 1..Len(StructFields(t))})
    [] Kind(t) \in {"slice", "ptr"} -> 1 + TypeHeight(Elem(t))
    [] Kind(t) = "map" -> 1 + Max({TypeHeight(Key(t)), TypeHeight(Elem(t))})
    [] OTHER -> 1

\* The functions in the order in which one hands its own arguments on to
\* another.
Rank(fn) ==
  CASE fn = "ConvertStructs" -> 4
    [] fn = "convertValue" -> 3
    [] fn = "convertBasedOnKind" -> 2
    [] OTHER -> 1

\* The calls the call on top of the stack makes, under iteration order ord.
TopCalls(ord) ==
  IF ver = VA THEN Callees(Head(stack), tagName, ord) ELSE CalleesInd(Head(stack), tagName, ord)

\* Every call of convertValue the call on top of the stack makes has a
\* source strictly lower than that of the call on top.
SmallerSource ==
  stack # <<>> =>
    \A ord \in OrdersFor(Head(stack).s.t) :
      \A k \in 1..Len(TopCalls(ord)) :
        TopCalls(ord)[k].fn = "convertValue"
          => Height(TopCalls(ord)[k].s) < Height(Head(stack).s)

\* The same, but for the call convertValue of part_001, line 151, makes
\* for a pointer target type: on its source, or the pointee of its source,
\* and the pointee type.
SmallerSourceOrPointee ==
  stack # <<>> =>
    \A ord \in OrdersFor(Head(stack).s.t) :
      \A k \in 1..Len(TopCalls(ord)) :
        TopCalls(ord)[k].fn = "convertValue"
          => \/ Height(TopCalls(ord)[k].s) < Height(Head(stack).s)
             \/ /\ ver = VC
                /\ Head(stack).fn = "convertValue"
                /\ Kind(Head(stack).t) = "ptr"
                /\ Kind(Head(stack).s.t) # "ptr"
                /\ TopCalls(ord)[k].s = Head(stack).s
                /\ TopCalls(ord)[k].t = Elem(Head(stack).t)

\* The call c comes before the call f in a well-founded order: source and
\* target type are together lower, or as high and handed on to a function
\* of lower rank.
Before(c, f) ==
  \/ Height(c.s) + TypeHeight(c.t) < Height(f.s) + TypeHeight(f.t)
  \/ /\ Height(c.s) + TypeHeight(c.t) = Height(f.s) + TypeHeight(f.t)
     /\ Rank(c.fn) < Rank(f.fn)

\* Every call the call on top of the stack makes comes before it.
Descends ==
  stack # <<>> =>
    \A ord \in OrdersFor(Head(stack).s.t) :
      \A k \in 1..Len(TopCalls(ord)) : Before(TopCalls(ord)[k], Head(stack))

\* The outermost call has returned.
Returned == pc = "done"

====
